---- MODULE Spec2Model ----
(***************************************************************************)
(* The capture session of CardScanner-Pro: the CameraCapture component     *)
(* (src/components/CameraCapture.tsx) together with the part of App        *)
(* (src/App.tsx) that consumes its output.                                  *)
(*                                                                         *)
(* One step of the model is one task of the page: an event handler, a      *)
(* timer, an animation-frame callback or the continuation of an await,     *)
(* run to completion, followed by the React commit it causes (the render   *)
(* of the batched state updates and the effects whose dependencies         *)
(* changed).  The continuation of a settled play() promise is a microtask: *)
(* it runs before any other task; a change of srcObject settles a pending  *)
(* promise at once.                                                        *)
(* A preview element that React has removed delivers no further events.    *)
(***************************************************************************)
EXTENDS Bags, FiniteSets, Integers, Sequences, TLC

\* ---------------------------------------------------------------- bounds
MaxStreams == 2   \* streams the Device Camera Provider grants in one run
MaxPending == 2   \* provider requests, delayed starts and file reads
                  \* outstanding at once

\* ------------------------------------------------------- program constants
ErrNone        == ""
ErrHttps       == "App requires HTTPS. Please check your URL."
ErrUnsupported == "Camera API not supported on this browser."
ErrPlay        == "Tap 'Retake' to enable camera access"
ErrCamera      == "Camera permission denied or not found."

FacingModes == {"environment", "user"}
ScanModes   == {"card", "qr"}
Envs        == {"ok", "insecure", "unsupported"}
FailureNames ==
  {"NotAllowedError", "NotFoundError", "NotReadableError",
   "OverconstrainedError", "AbortError"}
StreamIds   == 1 .. MaxStreams
None        == [name |-> "none", issued |-> 0]

VARIABLES
  view,        \* App: the view shown; CameraCapture is in the tree iff CAMERA
  life,        \* "rendered" (effects not yet run), "mounted", "unmounted"
  env,         \* secure context and navigator.mediaDevices of the page
  hidden,      \* document.hidden
  mountedRef,  \* mountedRef.current
  error,       \* useState error
  isLoading,   \* useState isLoading
  isReady,     \* useState isReady
  facingMode,  \* useState facingMode
  mode,        \* useState mode
  streamRef,   \* streamRef.current: a stream id, 0 for null
  heldVia,     \* the line whose request delivered the stream in streamRef
  tracks,      \* per stream the provider can grant: none/live/stopped/discarded
  video,       \* videoRef.current is an element (the <video> is rendered)
  srcObject,   \* videoRef.current.srcObject: a stream id, 0 for null
  metaPending, \* a loadedmetadata event is due with the handler assigned
  play,        \* the play() promise: none/pending/resolved/rejected
  starts,      \* bag of startCamera() calls suspended at an await
  timers,      \* bag of setTimeout callbacks, each with its startCamera's facingMode
  requestRef,  \* requestRef.current is defined
  rafs,        \* registered animation-frame callbacks with their closures
  reads,       \* FileReader reads in progress
  calls,       \* the consumer's invocations, in order
  lateFrames,  \* a frame was decoded after one on which jsQR returned a code
  shots,       \* frames handleCapture has encoded
  decodes,     \* frames on which jsQR returned a code
  lastErr,     \* the rejection the catch of startCamera last reported
  store,       \* localStorage: the item under STORAGE_KEY
  lastOp       \* what the last storageService call did to the list

camVars == <<view, life, env, hidden, mountedRef, error, isLoading, isReady,
          facingMode, mode, streamRef, heldVia, tracks, video, srcObject, metaPending,
          play, starts, timers, requestRef, rafs, reads, calls, lateFrames,
          shots, decodes, lastErr>>

vars == <<camVars, store, lastOp>>

\* The state as one record, so that a handler is a function of the state.
Cur ==
  [view |-> view, life |-> life, env |-> env, hidden |-> hidden,
   mountedRef |-> mountedRef, error |-> error, isLoading |-> isLoading,
   isReady |-> isReady, facingMode |-> facingMode, mode |-> mode,
   streamRef |-> streamRef, heldVia |-> heldVia, tracks |-> tracks,
   video |-> video,
   srcObject |-> srcObject, metaPending |-> metaPending, play |-> play,
   starts |-> starts, timers |-> timers, requestRef |-> requestRef,
   rafs |-> rafs, reads |-> reads, calls |-> calls, lateFrames |-> lateFrames,
   shots |-> shots, decodes |-> decodes, lastErr |-> lastErr]

Become(s) ==
  \E t \in {s} :
    /\ view' = t.view /\ life' = t.life /\ env' = t.env
    /\ hidden' = t.hidden
    /\ mountedRef' = t.mountedRef /\ error' = t.error
    /\ isLoading' = t.isLoading /\ isReady' = t.isReady
    /\ facingMode' = t.facingMode /\ mode' = t.mode
    /\ streamRef' = t.streamRef /\ heldVia' = t.heldVia
    /\ tracks' = t.tracks /\ video' = t.video
    /\ srcObject' = t.srcObject /\ metaPending' = t.metaPending
    /\ play' = t.play /\ starts' = t.starts /\ timers' = t.timers
    /\ requestRef' = t.requestRef /\ rafs' = t.rafs /\ reads' = t.reads
    /\ calls' = t.calls /\ lateFrames' = t.lateFrames /\ shots' = t.shots
    /\ decodes' = t.decodes /\ lastErr' = t.lastErr
    /\ UNCHANGED <<store, lastOp>>

\* ------------------------------------------------------------ React state
\* A state setter of a component that has left the tree does nothing.
setError(s, v) == IF s.life = "unmounted" THEN s ELSE [s EXCEPT !.error = v]

setIsLoading(s, v) ==
  IF s.life = "unmounted" THEN s ELSE [s EXCEPT !.isLoading = v]

setIsReady(s, v) == IF s.life = "unmounted" THEN s ELSE [s EXCEPT !.isReady = v]

\* ------------------------------------------------------- browser objects
\* Assigning srcObject runs the media element load algorithm: the event of
\* the previous source is dropped and a pending play() promise is settled,
\* resolved when playback had begun and rejected (AbortError) otherwise.
setSrcObject(s, v, settle) ==
  [s EXCEPT !.srcObject = v, !.metaPending = FALSE,
            !.play = IF @ = "pending" THEN settle ELSE @]

\* cancelAnimationFrame(requestRef.current)
cancelAnimationFrame(s) == [s EXCEPT !.rafs = {r \in @ : ~r.cur}]

\* requestRef.current = requestAnimationFrame(scanQRCode), scanQRCode being
\* the closure over the rendered mode and isReady.
\* (First a variant that does not keep the handle.)
requestAnimationFrameUntracked(s, m, rdy) ==
  [s EXCEPT !.rafs = @ \cup {[cur |-> FALSE, mode |-> m, ready |-> rdy]}]

requestAnimationFrame(s, m, rdy) ==
  [s EXCEPT !.requestRef = TRUE,
            !.rafs = {[r EXCEPT !.cur = FALSE] : r \in @}
                       \cup {[cur |-> TRUE, mode |-> m, ready |-> rdy]}]

\* MediaStreamTrack.stop() on every track of a stream
stopTracks(s, id, how) == [s EXCEPT !.tracks[id] = how]

\* ------------------------------------------------------------- stopCamera
\* A variant that also ends loading.
stopCameraClearsLoading(s, settle) ==
  LET a == IF s.requestRef THEN cancelAnimationFrame(s) ELSE s
      b == IF a.streamRef # 0
           THEN [stopTracks(a, a.streamRef, "stopped")
                   EXCEPT !.streamRef = 0, !.heldVia = "none"]
           ELSE a
      c == IF b.video THEN setSrcObject(b, 0, settle) ELSE b
  IN  setIsLoading(setIsReady(c, FALSE), FALSE)

\* A variant that leaves the stream in the preview.
stopCameraKeepsPreview(s, settle) ==
  LET a == IF s.requestRef THEN cancelAnimationFrame(s) ELSE s
      b == IF a.streamRef # 0
           THEN [stopTracks(a, a.streamRef, "stopped")
                   EXCEPT !.streamRef = 0, !.heldVia = "none"]
           ELSE a
  IN  setIsReady(b, FALSE)

\* stopCamera (lines 25-40)
stopCamera(s, settle) ==
  LET a == IF s.requestRef THEN cancelAnimationFrame(s) ELSE s
      b == IF a.streamRef # 0
           THEN [stopTracks(a, a.streamRef, "stopped")
                   EXCEPT !.streamRef = 0, !.heldVia = "none"]
           ELSE a
      c == IF b.video THEN setSrcObject(b, 0, settle) ELSE b
  IN  setIsReady(c, FALSE)

\* ------------------------------------------------------------ startCamera
\* A call suspended at an await: the line it waits at, the constraints of
\* the request it waits for, and the requests it has issued so far.
StartAt(line, req, n) == [pc |-> line, req |-> req, issued |-> n]

\* startCamera up to its first await (lines 86-116), fm being the
\* facingMode its closure was created with.
\* (First a variant without the checks of the environment.)
startCameraUnchecked(s, fm, settle) ==
  IF ~s.mountedRef THEN s
  ELSE
    LET a == stopCamera(s, settle)
        b == setIsReady(setIsLoading(setError(a, ErrNone), TRUE), FALSE)
        c == [b EXCEPT !.lastErr = None]
    IN  [c EXCEPT !.starts = @ (+) SetToBag({StartAt("L116", fm, 1)})]

\* (And a variant that leaves the last error in place.)
startCameraKeepsError(s, fm, settle) ==
  IF ~s.mountedRef THEN s
  ELSE
    LET a == stopCamera(s, settle)
        b == setIsReady(setIsLoading(a, TRUE), FALSE)
        c == [b EXCEPT !.lastErr = None]
    IN  IF c.env = "insecure"
          THEN setIsLoading(setError(c, ErrHttps), FALSE)
        ELSE IF c.env = "unsupported"
          THEN setIsLoading(setError(c, ErrUnsupported), FALSE)
        ELSE [c EXCEPT !.starts = @ (+) SetToBag({StartAt("L116", fm, 1)})]

startCamera(s, fm, settle) ==
  IF ~s.mountedRef THEN s
  ELSE
    LET a == stopCamera(s, settle)
        b == setIsReady(setIsLoading(setError(a, ErrNone), TRUE), FALSE)
        c == [b EXCEPT !.lastErr = None]
    IN  IF c.env = "insecure"
          THEN setIsLoading(setError(c, ErrHttps), FALSE)
        ELSE IF c.env = "unsupported"
          THEN setIsLoading(setError(c, ErrUnsupported), FALSE)
        ELSE [c EXCEPT !.starts = @ (+) SetToBag({StartAt("L116", fm, 1)})]

\* --------------------------------------------------------------- effects
\* useEffect [mode, isReady, scanQRCode]: cleanup and body
scanEffectCleanup(s) == IF s.requestRef THEN cancelAnimationFrame(s) ELSE s

\* its dependencies: scanQRCode changes with mode and isReady (onCapture
\* and stopCamera do not change while the camera view is shown)
\* (a variant whose dependencies leave mode out)
scanEffectDepsWithoutMode(p, s) == s.isReady # p.isReady

scanEffectDeps(p, s) == s.mode # p.mode \/ s.isReady # p.isReady

\* (First a variant of the body that does not look at isReady.)
scanEffectIgnoresReady(s, m, rdy) ==
  IF m = "qr" THEN requestAnimationFrame(s, m, rdy)
  ELSE IF s.requestRef THEN cancelAnimationFrame(s)
  ELSE s

\* (And a variant of the body that never starts the loop.)
scanEffectNeverArms(s, m, rdy) ==
  IF s.requestRef THEN cancelAnimationFrame(s) ELSE s

scanEffect(s, m, rdy) ==
  IF m = "qr" /\ rdy THEN requestAnimationFrame(s, m, rdy)
  ELSE IF s.requestRef THEN cancelAnimationFrame(s)
  ELSE s

\* useEffect [startCamera, stopCamera] "Initial Mount": cleanup and body
mountEffectCleanup(s, settle) ==
  stopCamera([s EXCEPT !.mountedRef = FALSE], settle)

mountEffect(s, fm, settle) ==
  startCamera([s EXCEPT !.mountedRef = TRUE], fm, settle)

\* its dependencies: startCamera changes with facingMode
\* (a variant with no dependencies: the effect runs on mount only)
mountEffectDepsNone(p, s) == FALSE

mountEffectDeps(p, s) == s.facingMode # p.facingMode

\* The render: the <video> is in the tree iff error is empty; an element
\* that leaves the tree takes its srcObject and its handler with it.
render(s) ==
  LET v == s.error = ErrNone
  IN  IF v = s.video THEN s
      ELSE [s EXCEPT !.video = v, !.srcObject = 0, !.metaPending = FALSE]

\* CameraCapture leaves the tree: the refs are detached, then the cleanups
\* of the three effects run (the second removes the visibility listener).
\* The state of the component goes with it; the model shows it as the
\* state of a component just constructed, and none of it is read again.
unmount(s, settle) ==
  LET a == [s EXCEPT !.video = FALSE, !.srcObject = 0, !.metaPending = FALSE,
                     !.life = "unmounted",
                     !.error = ErrNone, !.isLoading = TRUE, !.isReady = FALSE,
                     !.facingMode = "environment", !.mode = "card",
                     !.hidden = FALSE, !.lastErr = None]
  IN  mountEffectCleanup(scanEffectCleanup(a), settle)

\* The commit that follows a task: p is the state the last render showed,
\* s the state the task left.  Effects whose dependencies changed run their
\* cleanups, then their bodies, with the values of this render; the state
\* they set is rendered in a second pass.
commit(p, s, settle) ==
  IF s.life = "unmounted" THEN s
  ELSE IF s.view # "CAMERA" THEN unmount(s, settle)
  ELSE
    LET r1 == render(s)
        e1 == scanEffectDeps(p, s)
        e3 == mountEffectDeps(p, s)
        c1 == IF e1 THEN scanEffectCleanup(r1) ELSE r1
        c3 == IF e3 THEN mountEffectCleanup(c1, settle) ELSE c1
        b1 == IF e1 THEN scanEffect(c3, s.mode, s.isReady) ELSE c3
        b3 == IF e3 THEN mountEffect(b1, s.facingMode, settle) ELSE b1
        r2 == render(b3)
        f1 == scanEffectDeps(s, b3)
        d1 == IF f1 THEN scanEffectCleanup(r2) ELSE r2
    IN  IF f1 THEN scanEffect(d1, b3.mode, b3.isReady) ELSE d1

\* ------------------------------------------------------------------ App
\* App.handleCapture: the consumer.  It records what it was handed and shows
\* the editor, which takes CameraCapture out of the tree.  held is the
\* stream the session held when the handler that hands off began.
ConsumerCall(s, data, kind, via, held) ==
  [data |-> data, kind |-> kind, via |-> via, mode |-> s.mode,
   error |-> s.error, held |-> held # 0,
   released |-> s.streamRef = 0 /\ (held = 0 \/ s.tracks[held] # "live")]

\* A variant of the consumer that keeps the camera view.
onCaptureKeepsCamera(s, data, kind, via, held) ==
  [s EXCEPT !.calls = Append(@, ConsumerCall(s, data, kind, via, held))]

onCapture(s, data, kind, via, held) ==
  [s EXCEPT !.calls = Append(@, ConsumerCall(s, data, kind, via, held)),
            !.view = "EDIT"]

\* ------------------------------------------------------------------ Init
\* ---- storageService: the contact list kept in localStorage ----

MaxContacts == 3

\* The id strings in use, numbered, and the values of the other fields.
ContactIds == 1 .. MaxContacts

Names == {"Ann", "Bob"}

Contacts == [id : ContactIds, name : Names]

\* localStorage.getItem gives null for a key never written.
NoItem == [has |-> FALSE, text |-> <<>>]

setItem(text) == [has |-> TRUE, text |-> text]

\* JSON.stringify of a Contact[]: the members of each element, in order.
stringify(list) ==
  [i \in DOMAIN list |-> <<"id", list[i].id, "name", list[i].name>>]

\* JSON.parse of such a text.
parse(text) ==
  [i \in DOMAIN text |-> [id |-> text[i][2], name |-> text[i][4]]]

getContacts(st) == IF st.has THEN parse(st.text) ELSE <<>>

\* Array.prototype.findIndex with c => c.id === id: zero-based, -1 if none.
findIndex(list, id) ==
  LET hits == {i \in DOMAIN list : list[i].id = id}
  IN  IF hits = {} THEN -1
      ELSE (CHOOSE i \in hits : \A j \in hits : i <= j) - 1

saveContactAlwaysUnshifts(st, contact) ==
  setItem(stringify(<<contact>> \o getContacts(st)))

saveContact(st, contact) ==
  LET contacts == getContacts(st)
      index == findIndex(contacts, contact.id)
  IN  IF index >= 0
        THEN setItem(stringify([contacts EXCEPT ![index + 1] = contact]))
      ELSE setItem(stringify(<<contact>> \o contacts))

deleteContact(st, id) ==
  LET contacts == getContacts(st)
      keep(c) == c.id # id
  IN  setItem(stringify(SelectSeq(contacts, keep)))

Init ==
  /\ view = "CAMERA" /\ life = "rendered"
  /\ env \in Envs /\ hidden = FALSE
  /\ mountedRef = TRUE
  /\ error = ErrNone /\ isLoading = TRUE /\ isReady = FALSE
  /\ facingMode = "environment" /\ mode = "card"
  /\ streamRef = 0 /\ heldVia = "none"
  /\ tracks = [i \in StreamIds |-> "none"]
  /\ video = TRUE /\ srcObject = 0 /\ metaPending = FALSE /\ play = "none"
  /\ starts = EmptyBag /\ timers = EmptyBag
  /\ requestRef = FALSE /\ rafs = {}
  /\ reads = 0 /\ calls = <<>> /\ lateFrames = FALSE /\ shots = 0 /\ decodes = 0
  /\ lastErr = None
  /\ store = NoItem /\ lastOp = "none"

\* A settled play() promise's continuation is a microtask.
Quiet == play \notin {"resolved", "rejected"}

Mounted == life = "mounted" /\ Quiet

Pending == BagCardinality(starts) + BagCardinality(timers) + reads

CanStart == Pending < MaxPending

Settles == {"resolved", "rejected"}

\* The outcomes to choose from now: there is a choice only while a play()
\* promise is pending.
SettleNow == IF play = "pending" THEN Settles ELSE {"rejected"}

\* The first commit: the effects run in order.
Mount ==
  /\ life = "rendered"
  /\ \E settle \in SettleNow :
       LET a == scanEffect([Cur EXCEPT !.life = "mounted"], mode, isReady)
           b == mountEffect(a, facingMode, settle)
       IN  Become(commit(Cur, b, settle))

\* ------------------------------------------------------------- user input
\* "Retake" (disabled while loading) and "Retry Camera" (shown with an
\* error) both call startCamera.
ClickRetake ==
  /\ Mounted /\ ~isLoading /\ CanStart
  /\ \E settle \in SettleNow :
       Become(commit(Cur, startCamera(Cur, facingMode, settle), settle))

ClickRetry ==
  /\ Mounted /\ error # ErrNone /\ CanStart
  /\ \E settle \in SettleNow :
       Become(commit(Cur, startCamera(Cur, facingMode, settle), settle))

\* "Flip"
toggleCamera(s) ==
  [s EXCEPT !.facingMode = IF @ = "environment" THEN "user" ELSE "environment"]

ToggleCamera ==
  /\ Mounted /\ CanStart
  /\ \E settle \in SettleNow : Become(commit(Cur, toggleCamera(Cur), settle))

\* The mode toggle buttons
setMode(s, m) == [s EXCEPT !.mode = m]

SetMode ==
  /\ Mounted
  /\ \E m \in ScanModes, settle \in SettleNow :
       /\ m # mode
       /\ Become(commit(Cur, setMode(Cur, m), settle))

\* The shutter, taken as capture(): it can be called in every state of a
\* mounted session and its own guards decide.  zero: the video reports a
\* zero width or height; ctx: the canvas gave a 2d context.
\* (First a variant that hands off before it stops the camera.)
handleCaptureCallsFirst(s, zero, ctx, settle) ==
  IF s.mode = "qr" THEN s
  ELSE IF s.video /\ s.isReady /\ ~zero /\ ctx
    THEN stopCamera(onCapture([s EXCEPT !.shots = @ + 1],
                              "jpeg", "image", "capture", s.streamRef), settle)
  ELSE s

\* (And a variant without the check of the frame's dimensions.)
handleCaptureIgnoresZero(s, zero, ctx, settle) ==
  IF s.mode = "qr" THEN s
  ELSE IF s.video /\ s.isReady /\ ctx
    THEN onCapture(stopCamera([s EXCEPT !.shots = @ + 1], settle),
                   "jpeg", "image", "capture", s.streamRef)
  ELSE s

handleCapture(s, zero, ctx, settle) ==
  IF s.mode = "qr" THEN s
  ELSE IF s.video /\ s.isReady
    THEN IF zero THEN s
         ELSE IF ctx
           THEN onCapture(stopCamera([s EXCEPT !.shots = @ + 1], settle),
                          "jpeg", "image", "capture", s.streamRef)
         ELSE s
  ELSE s

\* A preview without a source has no frame: its videoWidth is 0 and its
\* readyState is HAVE_NOTHING.
FrameIsEmpty == IF srcObject # 0 THEN BOOLEAN ELSE {TRUE}

HasEnoughData == IF srcObject # 0 THEN BOOLEAN ELSE {FALSE}

HandleCapture ==
  /\ Mounted
  /\ \E zero \in FrameIsEmpty, settle \in SettleNow :
       \E ctx \in IF zero THEN {TRUE} ELSE BOOLEAN :
         Become(commit(Cur, handleCapture(Cur, zero, ctx, settle), settle))

\* The header's close button: onCancel, App shows the list.
onCancel(s) == [s EXCEPT !.view = "LIST"]

Cancel ==
  /\ Mounted
  /\ \E settle \in SettleNow : Become(commit(Cur, onCancel(Cur), settle))

\* The upload input, disabled in qr mode.
\* (First a variant that an error disables too.)
UploadEnabledUnlessError(s) ==
  s.life = "mounted" /\ s.mode # "qr" /\ s.error = ErrNone

UploadEnabled(s) == s.life = "mounted" /\ s.mode # "qr"

handleFileUpload(s, file) == IF file THEN [s EXCEPT !.reads = @ + 1] ELSE s

HandleFileUpload ==
  /\ Mounted /\ UploadEnabled(Cur) /\ Pending < MaxPending
  /\ \E file \in BOOLEAN : Become(commit(Cur, handleFileUpload(Cur, file), "rejected"))

\* reader.onloadend: the read has ended, with a data URI or, failed, with null.
onloadend(s, result, settle) ==
  onCapture(stopCamera([s EXCEPT !.reads = @ - 1], settle),
            result, "image", "upload", s.streamRef)

FileReadEnd ==
  /\ Quiet /\ reads > 0
  /\ \E result \in {"dataUri", "null"}, settle \in SettleNow :
       Become(commit(Cur, onloadend(Cur, result, settle), settle))

\* ------------------------------------------------------------- visibility
\* handleVisibilityChange (lines 153-168)
\* (First a variant that keeps the camera running while hidden.)
handleVisibilityChangeKeepsStream(s, settle) ==
  IF s.hidden THEN s
  ELSE [s EXCEPT !.timers = @ (+) SetToBag({s.facingMode})]

handleVisibilityChange(s, settle) ==
  IF s.hidden THEN stopCamera(s, settle)
  ELSE [s EXCEPT !.timers = @ (+) SetToBag({s.facingMode})]

PageHide ==
  /\ Mounted /\ ~hidden
  /\ \E settle \in SettleNow :
       Become(commit(Cur, handleVisibilityChange([Cur EXCEPT !.hidden = TRUE],
                                                 settle), settle))

PageShow ==
  /\ Mounted /\ hidden /\ Pending < MaxPending
  /\ Become(commit(Cur, handleVisibilityChange([Cur EXCEPT !.hidden = FALSE],
                                               "rejected"), "rejected"))

\* The setTimeout callback of handleVisibilityChange, 500 ms later
timeout(s, fm, settle) ==
  LET a == [s EXCEPT !.timers = @ (-) SetToBag({fm})]
  IN  IF a.mountedRef THEN startCamera(a, fm, settle) ELSE a

TimerFire ==
  /\ Quiet
  /\ \E fm \in BagToSet(timers), settle \in SettleNow :
       /\ Become(commit(Cur, timeout(Cur, fm, settle), settle))

\* ------------------------------------------------- Device Camera Provider
FreshIds == {i \in StreamIds : tracks[i] = "none" /\
                               \A j \in StreamIds : j < i => tracks[j] # "none"}

\* getUserMedia resolves: startCamera resumes after the await (lines 122-143).
\* (First a variant without the mountedRef check.)
resumeWithStreamUnchecked(s, w, id, settle) ==
  LET a == [s EXCEPT !.starts = @ (-) SetToBag({w})]
      b == [stopTracks(a, id, "live")
              EXCEPT !.streamRef = id, !.heldVia = w.pc]
  IN  IF b.video
        THEN [setSrcObject(b, id, settle) EXCEPT !.metaPending = TRUE]
      ELSE b

resumeWithStream(s, w, id, settle) ==
  LET a == [s EXCEPT !.starts = @ (-) SetToBag({w})]
  IN  IF ~a.mountedRef THEN stopTracks(a, id, "discarded")
      ELSE
        LET b == [stopTracks(a, id, "live")
                    EXCEPT !.streamRef = id, !.heldVia = w.pc]
        IN  IF b.video
              THEN [setSrcObject(b, id, settle) EXCEPT !.metaPending = TRUE]
            ELSE b

ProviderGrant ==
  /\ Quiet
  /\ \E w \in BagToSet(starts), id \in FreshIds, settle \in SettleNow :
       Become(commit(Cur, resumeWithStream(Cur, w, id, settle), settle))

\* getUserMedia rejects with the error named name: the inner catch issues
\* the generic request (lines 117-120), the outer catch reports (144-149).
\* The name of the first rejection is looked at by nothing, so one stands
\* for all.
\* (First a variant whose first failure is reported at once.)
resumeWithErrorNoFallback(s, w, name) ==
  LET a == [s EXCEPT !.starts = @ (-) SetToBag({w})]
  IN  IF ~a.mountedRef THEN a
      ELSE [setError(setIsLoading(a, FALSE), ErrCamera)
              EXCEPT !.lastErr = [name |-> name, issued |-> w.issued]]

resumeWithError(s, w, name) ==
  LET a == [s EXCEPT !.starts = @ (-) SetToBag({w})]
  IN  IF w.pc = "L116"
        THEN [a EXCEPT !.starts = @ (+) SetToBag({StartAt("L119", "any",
                                                          w.issued + 1)})]
      ELSE IF ~a.mountedRef THEN a
      ELSE [setError(setIsLoading(a, FALSE), ErrCamera)
              EXCEPT !.lastErr = [name |-> name, issued |-> w.issued]]

ProviderReject ==
  /\ Quiet
  /\ \E w \in BagToSet(starts) :
       \E name \in IF w.pc = "L116" THEN {"NotFoundError"} ELSE FailureNames :
         Become(commit(Cur, resumeWithError(Cur, w, name), "rejected"))

\* ------------------------------------------------------------ the preview
\* videoRef.current.onloadedmetadata up to its await (lines 131-134)
\* (First a variant that does not start playback.)
onloadedmetadataNoPlay(s) == [s EXCEPT !.metaPending = FALSE]

onloadedmetadata(s) ==
  LET a == [s EXCEPT !.metaPending = FALSE]
  IN  IF ~a.mountedRef THEN a ELSE [a EXCEPT !.play = "pending"]

LoadedMetadata ==
  /\ Quiet /\ metaPending
  /\ Become(commit(Cur, onloadedmetadata(Cur), "rejected"))

\* ... and after it (lines 135-141)
\* (First a variant that leaves the loading indicator on.)
afterPlayKeepsLoading(s, outcome) ==
  LET a == [s EXCEPT !.play = "none"]
  IN  IF outcome = "resolved" THEN setIsReady(a, TRUE)
      ELSE setIsLoading(setError(a, ErrPlay), FALSE)

\* (And a variant that treats a refusal as a start.)
afterPlayIgnoresRejection(s, outcome) ==
  setIsLoading(setIsReady([s EXCEPT !.play = "none"], TRUE), FALSE)

afterPlay(s, outcome) ==
  LET a == [s EXCEPT !.play = "none"]
  IN  IF outcome = "resolved"
        THEN setIsLoading(setIsReady(a, TRUE), FALSE)
      ELSE setIsLoading(setError(a, ErrPlay), FALSE)

\* Playback starts, or the autoplay policy blocks it: the promise settles.
PlaySettles ==
  /\ play = "pending"
  /\ \E outcome \in Settles : Become([Cur EXCEPT !.play = outcome])

\* The continuation of the settled promise.
PlayContinues ==
  /\ ~Quiet
  /\ \E p \in {Cur} :
       \E s \in {afterPlay(p, play)} : Become(commit(p, s, "rejected"))

\* ----------------------------------------------------------- the scan loop
\* scanQRCode, run as the animation-frame callback r.  enough: the video has
\* HAVE_ENOUGH_DATA; ctx: the canvas gave a 2d context; code: jsQR found one.
\* (First a variant that treats a decoded code as no code.)
scanQRCodeMissesCode(s, r, enough, ctx, code, settle) ==
  LET a == [s EXCEPT !.rafs = @ \ {r}]
  IN  IF r.mode # "qr" \/ ~a.video \/ ~r.ready THEN a
      ELSE
        LET b == IF enough /\ ctx
                 THEN [a EXCEPT !.lateFrames = @ \/ a.decodes > 0,
                                !.decodes = @ + (IF code THEN 1 ELSE 0)]
                 ELSE a
        IN  requestAnimationFrame(b, r.mode, r.ready)

\* (And a variant that goes on to the next frame only after a frame it
\* could decode.)
scanQRCodeStopsOnMiss(s, r, enough, ctx, code, settle) ==
  LET a == [s EXCEPT !.rafs = @ \ {r}]
  IN  IF r.mode # "qr" \/ ~a.video \/ ~r.ready THEN a
      ELSE IF enough /\ ctx
        THEN LET b == [a EXCEPT !.lateFrames = @ \/ a.decodes > 0,
                                !.decodes = @ + (IF code THEN 1 ELSE 0)]
             IN  IF code
                   THEN onCapture(stopCamera(b, settle), "code", "qr", "scan",
                                  s.streamRef)
                 ELSE requestAnimationFrame(b, r.mode, r.ready)
      ELSE a

scanQRCode(s, r, enough, ctx, code, settle) ==
  LET a == [s EXCEPT !.rafs = @ \ {r}]
  IN  IF r.mode # "qr" \/ ~a.video \/ ~r.ready THEN a
      ELSE
        LET b == IF enough /\ ctx
                 THEN [a EXCEPT !.lateFrames = @ \/ a.decodes > 0,
                                !.decodes = @ + (IF code THEN 1 ELSE 0)]
                 ELSE a
        IN  IF enough /\ ctx /\ code
              THEN onCapture(stopCamera(b, settle), "code", "qr", "scan",
                             s.streamRef)
            ELSE requestAnimationFrame(b, r.mode, r.ready)

ScanFrame ==
  /\ Quiet
  /\ \E r \in rafs, enough \in HasEnoughData, ctx \in BOOLEAN,
        settle \in SettleNow :
       \E code \in IF enough /\ ctx THEN BOOLEAN ELSE {FALSE} :
         Become(commit(Cur, scanQRCode(Cur, r, enough, ctx, code, settle),
                       settle))

Next ==
  \/ Mount
  \/ ClickRetake
  \/ ClickRetry
  \/ ToggleCamera
  \/ SetMode
  \/ HandleCapture
  \/ Cancel
  \/ HandleFileUpload
  \/ FileReadEnd
  \/ PageHide
  \/ PageShow
  \/ TimerFire
  \/ ProviderGrant
  \/ ProviderReject
  \/ LoadedMetadata
  \/ PlaySettles
  \/ PlayContinues
  \/ ScanFrame

Spec == Init /\ [][Next]_vars

\* ---------------------------------------------------------------- progress
\* The provider answers every request; the preview reports the metadata of
\* a stream it keeps and the outcome of a playback start; a continuation
\* that is due runs.  So while one of these is outstanding, one of them
\* happens.
Answers ==
  \/ ProviderGrant
  \/ ProviderReject
  \/ LoadedMetadata
  \/ PlaySettles
  \/ PlayContinues

StartFairness == WF_vars(Answers)

\* The session that stays on screen and visible: starts, retries, flips
\* and what the provider and the preview answer.
StartNext ==
  \/ Mount
  \/ ClickRetake
  \/ ClickRetry
  \/ ToggleCamera
  \/ ProviderGrant
  \/ ProviderReject
  \/ LoadedMetadata
  \/ PlaySettles
  \/ PlayContinues

StartSpec == Init /\ [][StartNext]_vars /\ StartFairness

\* A frame on which the decoder finds a code: the frames keep coming while
\* the loop is registered, and the code in front of the camera is found on
\* one of them.
ScanHit ==
  /\ Quiet
  /\ \E r \in rafs, settle \in SettleNow :
       /\ TRUE \in HasEnoughData
       /\ \E p \in {Cur} :
            \E s \in {scanQRCode(p, r, TRUE, TRUE, TRUE, settle)} :
              Become(commit(p, s, settle))

\* The session that scans: it starts, is switched between the modes and
\* the cameras, is restarted, and runs its frame callbacks.
ScanNext ==
  \/ Mount
  \/ ToggleCamera
  \/ SetMode
  \/ ProviderGrant
  \/ ProviderReject
  \/ LoadedMetadata
  \/ PlaySettles
  \/ PlayContinues
  \/ ScanFrame

ScanSpec ==
  Init /\ [][ScanNext]_vars /\ WF_vars(PlayContinues) /\ WF_vars(ScanHit)

\* ---- the contact list: App calls the service on save and on delete ----

SaveContact ==
  /\ \E contact \in Contacts :
       /\ store' = saveContact(store, contact)
       /\ lastOp' = IF findIndex(getContacts(store), contact.id) >= 0
                      THEN "replace" ELSE "insert"
  /\ UNCHANGED camVars

DeleteContact ==
  /\ \E id \in ContactIds :
       /\ store' = deleteContact(store, id)
       /\ lastOp' = "delete"
  /\ UNCHANGED camVars

StoreNext ==
  \/ SaveContact
  \/ DeleteContact

StoreSpec == Init /\ [][StoreNext]_vars

TypeOK ==
  /\ view \in {"CAMERA", "EDIT", "LIST"}
  /\ life \in {"rendered", "mounted", "unmounted"}
  /\ streamRef \in 0 .. MaxStreams /\ srcObject \in 0 .. MaxStreams
  /\ play \in {"none", "pending", "resolved", "rejected"}
  /\ Pending <= MaxPending
  /\ heldVia \in {"none", "L116", "L119"}
  /\ lateFrames \in BOOLEAN

\* ---------------------------------------------------------------- claims
Live == {i \in StreamIds : tracks[i] = "live"}

CallsVia(v) == Cardinality({i \in DOMAIN calls : calls[i].via = v})

CameraPaths == {"capture", "scan"}

\* The reason the earlier version of startCamera's catch gave for a
\* rejection, one per class of failure.
ReasonFor(name) ==
  CASE name = "NotAllowedError"      -> "Camera permission denied."
    [] name = "NotFoundError"        -> "No camera found."
    [] name = "NotReadableError"     -> "Camera in use by another app."
    [] name = "OverconstrainedError" -> "Camera resolution not supported."
    [] OTHER                         -> "Could not start camera."

\* C1: at most one stream obtained from the provider has un-stopped tracks
\* at any instant, and a stream with un-stopped tracks is the one held in
\* streamRef.
C1_OneActiveStream ==
  /\ Cardinality(Live) <= 1
  /\ \A i \in Live : streamRef = i

\* C2: whenever a capture or a QR decode invokes the consumer, streamRef is
\* already null and every track of the stream that was held is stopped.
C2_ReleasedBeforeHandoff ==
  \A i \in DOMAIN calls :
    calls[i].via \in CameraPaths => calls[i].released

C2_Witness ==
  \E i \in DOMAIN calls :
    calls[i].via \in CameraPaths /\ calls[i].held /\ calls[i].released

\* C3: each encoded frame and each decoded code invokes the consumer exactly
\* once, and the camera path of a session invokes it at most once in all.
C3_ExactlyOnce ==
  /\ CallsVia("capture") = shots
  /\ CallsVia("scan") = decodes
  /\ CallsVia("capture") + CallsVia("scan") <= 1

C3_Witness == shots = 1 /\ CallsVia("capture") = 1 /\ life = "unmounted"

\* C4: once mode is card no scan callback is registered, and the consumer
\* is handed a 'qr' payload only for a frame evaluated while mode was qr.
C4_NoQrAfterSwitch ==
  /\ life = "mounted" /\ mode = "card" => rafs = {}
  /\ \A i \in DOMAIN calls : calls[i].kind = "qr" => calls[i].mode = "qr"

C4_Witness ==
  /\ life = "mounted" /\ mode = "card" /\ requestRef
  /\ isReady /\ streamRef # 0 /\ error = ErrNone

\* C5: after the unmount, the answer to an outstanding provider request
\* does not invoke the consumer, and a stream it delivers is stopped at
\* once, is not stored in streamRef and is not bound to the preview.
C5_NothingAppliedAfterUnmount ==
  [][life = "unmounted" /\ starts' # starts =>
       /\ calls' = calls
       /\ streamRef' = 0 /\ srcObject' = 0
       /\ \A i \in StreamIds : tracks'[i] = "live" => tracks[i] = "live"]_vars

C5_Witness ==
  life = "unmounted" /\ \E i \in StreamIds : tracks[i] = "discarded"

\* C6: a start() issues at most two provider requests, the second being the
\* generic one, and an acquisition error is shown only by a start() whose
\* two requests have both failed.
C6_FallbackBeforeError ==
  /\ \A w \in BagToSet(starts) :
       /\ w.issued <= 2
       /\ w.pc = "L116" => w.issued = 1 /\ w.req \in FacingModes
       /\ w.pc = "L119" => w.issued = 2 /\ w.req = "any"
  /\ error = ErrCamera => lastErr.issued = 2
  /\ lastErr # None => lastErr.issued = 2

C6_Witness == error = ErrCamera /\ lastErr.issued = 2 /\ life = "mounted"

\* C7: stop() on a session that is already stopped leaves it as it is (a
\* play() promise still pending apart), and stop();stop() leaves the state
\* of a single stop().
Stopped(s) == s.streamRef = 0 /\ s.rafs = {} /\ ~s.isReady

C7_StopIdempotent ==
  \A o \in Settles :
    LET t == stopCamera(Cur, o)
    IN  /\ Stopped(Cur) => t = [Cur EXCEPT !.play = t.play]
        /\ \A o2 \in Settles : stopCamera(t, o2) = t

C7_Witness ==
  life = "mounted" /\ env = "insecure" /\ hidden /\ Stopped(Cur)

\* C8: when both requests of a start() have failed, the error shown is the
\* reason of the class of the provider's failure, a different one for each
\* class.
C8_ClassifiedReason ==
  [][lastErr' # lastErr /\ lastErr' # None =>
       error' = ReasonFor(lastErr'.name)]_vars

C10_NoFrameAfterDecode ==
  /\ CallsVia("scan") = decodes /\ decodes <= 1
  /\ \A i \in DOMAIN calls :
       calls[i].via = "scan" =>
         /\ calls[i].kind = "qr" /\ calls[i].data = "code"
         /\ rafs = {}
  /\ ~lateFrames

C10_Witness ==
  /\ decodes = 1 /\ CallsVia("scan") = 1 /\ life = "unmounted"

\* C11: when the page becomes hidden the hide handler stops the stream (the
\* held stream's tracks are stopped, nothing is held or shown, readiness is
\* not ready); when the page becomes visible again no start is issued at
\* once but a timer is set, and the timer's firing issues a new start()
\* with the facing mode of that moment iff the session is still mounted.
C11_HideStopsShowRestarts ==
  [][/\ (life = "mounted" /\ life' = "mounted" /\ ~hidden /\ hidden') =>
          /\ streamRef' = 0 /\ srcObject' = 0 /\ ~isReady'
          /\ (streamRef # 0 => tracks'[streamRef] = "stopped")
          /\ starts' = starts /\ timers' = timers
     /\ (life = "mounted" /\ life' = "mounted" /\ hidden /\ ~hidden') =>
          /\ CopiesIn(facingMode, timers') = CopiesIn(facingMode, timers) + 1
          /\ BagCardinality(timers') = BagCardinality(timers) + 1
          /\ starts' = starts /\ isLoading' = isLoading
     /\ BagCardinality(timers') < BagCardinality(timers) =>
          IF life = "mounted" /\ env = "ok"
            THEN \E fm \in BagToSet(timers) :
                   /\ CopiesIn(fm, timers') = CopiesIn(fm, timers) - 1
                   /\ CopiesIn(StartAt("L116", fm, 1), starts')
                        = CopiesIn(StartAt("L116", fm, 1), starts) + 1
                   /\ isLoading' /\ ~isReady' /\ error' = ErrNone
          ELSE starts' = starts]_vars

\* The page came back after a hide that stopped a ready session: the stream
\* is stopped, nothing is loading, and the restart timer is set.
C11_Witness ==
  /\ life = "mounted" /\ ~hidden /\ env = "ok"
  /\ timers # EmptyBag /\ starts = EmptyBag
  /\ streamRef = 0 /\ ~isReady /\ ~isLoading /\ error = ErrNone
  /\ \E i \in StreamIds : tracks[i] = "stopped"

\* C12: a stream granted to the generic request that followed a failed
\* facing-mode request is held and, the preview being shown, bound to it;
\* its metadata event starts playback; and when playback has started with
\* the stream still bound, readiness becomes ready with error empty and
\* isLoading false, the stream still held and live.
C12_FallbackReachesReady ==
  [][(life = "mounted" /\ life' = "mounted") =>
       /\ (heldVia' = "L119" /\ streamRef' # streamRef) =>
            /\ tracks'[streamRef'] = "live"
            /\ error' = error /\ isLoading' = isLoading
            /\ error = ErrNone => srcObject' = streamRef' /\ metaPending'
       /\ (heldVia = "L119" /\ metaPending /\ ~metaPending'
             /\ srcObject' = srcObject /\ srcObject # 0) =>
            play' = "pending"
       /\ (heldVia = "L119" /\ play = "resolved" /\ streamRef # 0
             /\ srcObject = streamRef) =>
            /\ isReady' /\ error' = ErrNone /\ ~isLoading'
            /\ streamRef' = streamRef /\ tracks'[streamRef] = "live"]_vars

\* The session is ready on the stream of a generic request.
C12_Witness ==
  /\ life = "mounted" /\ heldVia = "L119" /\ streamRef # 0
  /\ tracks[streamRef] = "live" /\ srcObject = streamRef
  /\ isReady /\ error = ErrNone /\ ~isLoading /\ play = "none"
  /\ starts = EmptyBag

\* C13: where the context is not secure or the camera API is missing,
\* every start() the mounted session has made ended with readiness error
\* (the reason of that environment) and isLoading false, and no request
\* was ever made to the provider: none is outstanding, no stream was ever
\* granted, and none is held.
EnvError == IF env = "insecure" THEN ErrHttps ELSE ErrUnsupported

C13_EnvironmentErrorNoRequest ==
  env # "ok" =>
    /\ starts = EmptyBag /\ streamRef = 0 /\ srcObject = 0
    /\ \A i \in StreamIds : tracks[i] = "none"
    /\ life = "mounted" => error = EnvError /\ ~isLoading /\ ~isReady

\* The camera was flipped, and so start() made again, in a context that is
\* not secure.
C13_Witness ==
  /\ env = "insecure" /\ life = "mounted" /\ error = ErrHttps
  /\ ~isLoading /\ facingMode = "user" /\ starts = EmptyBag

\* C14: in every state of the mounted session, readiness ready (isReady)
\* implies that a stream is held in streamRef and its tracks are live.
C14_ReadyHoldsLiveStream ==
  (life = "mounted" /\ isReady) =>
    streamRef # 0 /\ tracks[streamRef] = "live"

\* C15: in every state of the mounted session, a held stream with live
\* tracks implies readiness ready or loading in flight (isLoading), and no
\* stream is held while an error is shown.
C15_HeldOnlyWhileReadyOrLoading ==
  life = "mounted" =>
    /\ (streamRef # 0 /\ tracks[streamRef] = "live") => isReady \/ isLoading
    /\ error # ErrNone => streamRef = 0

\* C16: in every state at most one scan-loop frame callback is registered,
\* and one is registered only in a mounted session whose mode is qr and
\* whose readiness is ready; it is the one requestRef names and it closes
\* over that mode and readiness.
C16_OneFrameOnlyWhileScanning ==
  /\ Cardinality(rafs) <= 1
  /\ \A r \in rafs :
       /\ life = "mounted" /\ mode = "qr" /\ isReady
       /\ r.cur /\ requestRef /\ r.mode = "qr" /\ r.ready

\* The scan loop is running on a live stream.
C16_Witness ==
  /\ Cardinality(rafs) = 1 /\ life = "mounted" /\ mode = "qr" /\ isReady
  /\ streamRef # 0 /\ srcObject = streamRef /\ error = ErrNone

\* C17: a step that stops the held stream, or ends readiness, or unmounts
\* the session (page hide, unmount, restart, handoff) leaves no scan
\* callback pending, so that none pending at that moment runs later; and a
\* frame is decoded to a code, and the consumer given a 'qr' payload, only
\* by a step taken in qr mode from a ready session whose held stream is
\* live and shown in the preview.
ReadyOnLiveStream ==
  /\ life = "mounted" /\ isReady /\ streamRef # 0
  /\ tracks[streamRef] = "live" /\ srcObject = streamRef

C17_NoScanAfterStop ==
  [][/\ (streamRef # 0 /\ streamRef' = 0) => rafs' = {}
     /\ (isReady /\ ~isReady') => rafs' = {}
     /\ (life = "mounted" /\ life' = "unmounted") => rafs' = {}
     /\ decodes' # decodes => ReadyOnLiveStream /\ mode = "qr"
     /\ (Len(calls') > Len(calls) /\ calls'[Len(calls')].kind = "qr") =>
          /\ ReadyOnLiveStream /\ mode = "qr"
          /\ decodes' = decodes + 1]_vars

\* The page was hidden while the scan loop ran: the stream is stopped and
\* the callback that requestRef names is no longer pending.
C17_Witness ==
  /\ life = "mounted" /\ hidden /\ mode = "qr" /\ requestRef /\ rafs = {}
  /\ streamRef = 0 /\ ~isReady /\ ~isLoading /\ error = ErrNone
  /\ \E i \in StreamIds : tracks[i] = "stopped"

\* C18: once the session is unmounted, no step (the completion of a
\* provider request, of a playback start, of a scan frame or of a file
\* read) invokes the consumer, changes what the application shows, or
\* changes the component's state.
C18_NoCompletionAfterUnmount ==
  [][life = "unmounted" =>
       /\ calls' = calls /\ view' = view
       /\ error' = error /\ isLoading' = isLoading /\ isReady' = isReady
       /\ streamRef' = streamRef /\ srcObject' = srcObject]_vars

\* The "Retry Camera" button, pressed in the state s.
Retry(s) == commit(s, startCamera(s, s.facingMode, "rejected"), "rejected")

\* In the state s the provider grants the stream id to the facing-mode
\* request of the last start(), the preview loads its metadata, and
\* playback starts.
GrantAndPlay(s, id) ==
  LET w  == StartAt("L116", s.facingMode, 1)
      t2 == commit(s, resumeWithStream(s, w, id, "rejected"), "rejected")
      t3 == commit(t2, onloadedmetadata(t2), "rejected")
  IN  commit(t3, afterPlay(t3, "resolved"), "rejected")

\* C19 as stated: from every error state, retry's start() clears the error
\* and enters loading.
C19_RetryFromEveryError ==
  (Mounted /\ error # ErrNone) =>
    LET t == Retry(Cur) IN t.error = ErrNone /\ t.isLoading

\* C19, amended: from every error state of a supported environment,
\* retry's start() releases what is held, clears the error, enters loading
\* and issues one request, and if the provider then grants it and playback
\* starts, readiness is ready on that stream with no error; in an
\* environment that is not secure or has no camera API, retry's start()
\* ends in the same error again, not loading, with no request.
C19_RetryReusable ==
  (Mounted /\ error # ErrNone) =>
    LET t == Retry(Cur)
        w == StartAt("L116", facingMode, 1)
    IN  IF env = "ok"
          THEN /\ t.error = ErrNone /\ t.isLoading /\ ~t.isReady
               /\ t.streamRef = 0 /\ t.video
               /\ CopiesIn(w, t.starts) = CopiesIn(w, starts) + 1
               /\ play = "none" =>
                    \A id \in FreshIds :
                      LET u == GrantAndPlay(t, id)
                      IN  /\ u.isReady /\ u.error = ErrNone /\ ~u.isLoading
                          /\ u.streamRef = id /\ u.srcObject = id
                          /\ u.tracks[id] = "live"
        ELSE /\ t.error = EnvError /\ ~t.isLoading /\ ~t.isReady
             /\ t.starts = EmptyBag

\* Playback was refused and its stream is still held: an error state from
\* which retry, grant and playback lead to ready.
C19_Witness ==
  /\ Mounted /\ env = "ok" /\ error = ErrPlay /\ play = "none"
  /\ streamRef # 0 /\ FreshIds # {}
  /\ Retry(Cur).isLoading
  /\ GrantAndPlay(Retry(Cur), CHOOSE id \in FreshIds : TRUE).isReady

\* C20: in every state, once stop() has returned, the stream that was held
\* has its tracks stopped, streamRef is null, the preview has no stream
\* attached, no scan callback is pending, and readiness is not ready; no
\* other stream, request, timer or flag has changed.
C20_StopReleasesEverything ==
  \A o \in Settles :
    LET t == stopCamera(Cur, o)
    IN  /\ t.streamRef = 0 /\ t.srcObject = 0 /\ t.rafs = {}
        /\ ~t.isReady
        /\ streamRef # 0 => t.tracks[streamRef] = "stopped"
        /\ \A i \in StreamIds :
             i # streamRef => t.tracks[i] = tracks[i]
        /\ t.isLoading = isLoading /\ t.error = error
        /\ t.starts = starts /\ t.timers = timers /\ t.calls = calls

\* The page is hidden and the camera stopped after a stream had been
\* granted and shown: stop() has acted on a held stream.
C20_Witness ==
  /\ life = "mounted" /\ hidden /\ env = "ok"
  /\ streamRef = 0 /\ srcObject = 0 /\ rafs = {} /\ ~isReady
  /\ tracks[1] = "stopped" /\ starts = EmptyBag /\ play = "none"

\* C21: a change of mode in a mounted session issues no provider request
\* and leaves the held stream, every stream's tracks, the preview,
\* facingMode, readiness, isLoading and error unchanged; a change to qr
\* while ready leaves exactly one scan callback registered, one to card
\* leaves none.
C21_ModeChangeKeepsStream ==
  [][(life = "mounted" /\ life' = "mounted" /\ mode' # mode) =>
       /\ starts' = starts /\ timers' = timers
       /\ streamRef' = streamRef /\ tracks' = tracks
       /\ srcObject' = srcObject /\ facingMode' = facingMode
       /\ isReady' = isReady /\ isLoading' = isLoading /\ error' = error
       /\ calls' = calls
       /\ (mode' = "qr" /\ isReady) =>
            rafs' = {[cur |-> TRUE, mode |-> "qr", ready |-> TRUE]}
       /\ (mode' = "qr" /\ ~isReady) => rafs' = {}
       /\ mode' = "card" => rafs' = {}]_vars

\* The session was switched to qr on a ready stream and the loop runs.
C21_Witness ==
  /\ life = "mounted" /\ mode = "qr" /\ isReady /\ streamRef # 0
  /\ tracks[streamRef] = "live" /\ Cardinality(rafs) = 1
  /\ starts = EmptyBag /\ facingMode = "environment"

\* C22: two flips restore facingMode; and a step of the mounted session
\* that changes facingMode sets it to the other value, leaves mode
\* unchanged, stops the stream that was held, and makes a start(): in a
\* supported environment one more facing-mode request, for the new
\* value, is outstanding, with error empty and loading in flight.
C22_ToggleFlipsAndRestarts ==
  [][/\ toggleCamera(toggleCamera(Cur)).facingMode = facingMode
     /\ toggleCamera(Cur).facingMode # facingMode
     /\ (life = "mounted" /\ life' = "mounted"
          /\ facingMode' # facingMode) =>
          /\ facingMode' = toggleCamera(Cur).facingMode
          /\ mode' = mode
          /\ streamRef' = 0 /\ srcObject' = 0 /\ ~isReady'
          /\ streamRef # 0 => tracks'[streamRef] = "stopped"
          /\ IF env = "ok"
               THEN LET w == StartAt("L116", facingMode', 1)
                    IN  /\ CopiesIn(w, starts') = CopiesIn(w, starts) + 1
                        /\ BagCardinality(starts')
                             = BagCardinality(starts) + 1
                        /\ isLoading' /\ error' = ErrNone
             ELSE starts' = starts /\ error' = EnvError /\ ~isLoading'
    ]_vars

\* The camera was flipped while a stream was held: that stream is stopped
\* and the request for the other camera is outstanding.
C22_Witness ==
  /\ life = "mounted" /\ env = "ok" /\ facingMode = "user"
  /\ streamRef = 0 /\ tracks[1] = "stopped" /\ isLoading
  /\ starts = SetToBag({StartAt("L116", "user", 1)})

\* C23: in every state of the mounted session, capture() called when
\* readiness is not ready, or in qr mode, or on a frame of zero width or
\* height, returns with the state as it was, and so does the commit that
\* follows: the consumer is not invoked and the stream is not stopped.
C23_CaptureNoOp ==
  Mounted =>
    \A zero \in FrameIsEmpty, ctx \in BOOLEAN, o \in Settles :
      (~isReady \/ mode = "qr" \/ zero) =>
        /\ handleCapture(Cur, zero, ctx, o) = Cur
        /\ commit(Cur, handleCapture(Cur, zero, ctx, o), o) = Cur

\* A ready session in card mode, showing its stream, nothing handed off:
\* the shutter pressed on a frame of zero size changes nothing.
C23_Witness ==
  /\ Mounted /\ isReady /\ mode = "card" /\ video /\ streamRef # 0
  /\ srcObject = streamRef /\ tracks[streamRef] = "live"
  /\ calls = <<>> /\ shots = 0
  /\ handleCapture(Cur, TRUE, TRUE, "rejected") = Cur

\* C24: when the play() promise of the mounted session has been rejected,
\* the step that follows sets error to the retry reason and isLoading to
\* false and does not make readiness ready.
C24_PlaybackRejected ==
  [][(life = "mounted" /\ play = "rejected") =>
       /\ error' = ErrPlay /\ ~isLoading' /\ play' = "none"
       /\ isReady' = isReady /\ rafs' = rafs /\ calls' = calls]_vars

\* Playback of the first stream was refused with nothing else going on:
\* the retry reason is shown and the session is neither loading nor ready.
C24_Witness ==
  /\ life = "mounted" /\ error = ErrPlay /\ ~isLoading /\ ~isReady
  /\ play = "none" /\ ~hidden /\ facingMode = "environment"
  /\ starts = EmptyBag /\ timers = EmptyBag
  /\ \A i \in StreamIds : tracks[i] \in {"live", "none"}
  /\ tracks[1] = "live"

\* C25: under ScanSpec.  In every state of a ready session in qr mode that
\* shows its preview, a scan callback is registered, and its run on a
\* frame that is not decodable yet, or on which the decoder finds nothing,
\* leaves the state as it was: no error is set and the callback is
\* registered again.  And a session scanning a live stream later hands a
\* decoded code to the consumer, unless first it is switched to card, or
\* torn down: stopped, or its preview replaced by the error panel.
Scanning == ReadyOnLiveStream /\ mode = "qr"

C25_ScanLoopContinues ==
  /\ [](Mounted /\ video /\ isReady /\ mode = "qr" =>
          /\ Cardinality(rafs) = 1
          /\ \A r \in rafs, enough \in HasEnoughData, ctx \in BOOLEAN :
               commit(Cur, scanQRCode(Cur, r, enough, ctx, FALSE, "rejected"),
                      "rejected") = Cur)
  /\ Scanning ~>
       \/ \E i \in DOMAIN calls :
            calls[i].via = "scan" /\ calls[i].data = "code"
       \/ life = "mounted" /\ (mode = "card" \/ ~isReady \/ streamRef = 0)
       \/ life = "mounted" /\ error # ErrNone

\* The loop runs on a live stream and a frame without a code leaves it
\* running.
C25_Witness ==
  /\ Scanning /\ Quiet /\ error = ErrNone /\ decodes = 0 /\ calls = <<>>
  /\ \E r \in rafs :
       scanQRCode(Cur, r, TRUE, TRUE, FALSE, "rejected").rafs = rafs

\* C26: under StartSpec, whenever the mounted, visible session is loading
\* it later is not loading (readiness is then ready or error), unless it
\* is unmounted or hidden first.
C26_StartLeavesLoading ==
  (life = "mounted" /\ ~hidden /\ isLoading)
    ~> \/ life = "unmounted" \/ hidden
       \/ ~isLoading /\ (isReady \/ error # ErrNone)

\* A start made by a flip has ended: the session is ready on the other
\* camera and no longer loading.
C26_Witness ==
  /\ life = "mounted" /\ ~hidden /\ facingMode = "user" /\ ~isLoading
  /\ isReady /\ error = ErrNone /\ streamRef # 0
  /\ tracks[streamRef] = "live" /\ starts = EmptyBag /\ play = "none"

\* C27: while the page of the mounted session is hidden, the session holds
\* no stream with un-stopped tracks and readiness is not ready; so a
\* stream the provider delivers after the page was hidden is not kept.
C27_HiddenHoldsNoStream ==
  life = "mounted" /\ hidden =>
    /\ ~isReady
    /\ streamRef = 0 \/ tracks[streamRef] # "live"

\* C28: once the session is unmounted no step issues a provider request:
\* no request is outstanding after the step that was not outstanding
\* before it.
C28_NoRequestAfterUnmount ==
  [][life = "unmounted" =>
       \A w \in BagToSet(starts') : CopiesIn(w, starts') <= CopiesIn(w, starts)]_vars

\* C29: at most one provider request issued by the session is outstanding.
C29_OneRequestOutstanding == BagCardinality(starts) <= 1

\* C30: under StoreSpec.  The stored list has unique ids in every state,
\* and from it: saveContact of a contact whose id is in the list gives the
\* same list with that entry replaced by the contact (same length, same
\* order); saveContact of a contact with a new id gives the contact
\* followed by the list; deleteContact(id) gives the list without the
\* entry of that id, the others in their order.
UniqueIds(list) ==
  \A i, j \in DOMAIN list : list[i].id = list[j].id => i = j

C30_ListKeepsUniqueIds ==
  LET old == getContacts(store)
  IN  /\ UniqueIds(old)
      /\ \A contact \in Contacts :
           LET new == getContacts(saveContact(store, contact))
           IN  /\ UniqueIds(new)
               /\ IF \E i \in DOMAIN old : old[i].id = contact.id
                    THEN /\ Len(new) = Len(old)
                         /\ \A i \in DOMAIN old :
                              new[i] = IF old[i].id = contact.id
                                         THEN contact ELSE old[i]
                  ELSE /\ Len(new) = Len(old) + 1
                       /\ new[1] = contact
                       /\ \A i \in DOMAIN old : new[i + 1] = old[i]
      /\ \A id \in ContactIds :
           LET new == getContacts(deleteContact(store, id))
           IN  /\ UniqueIds(new)
               /\ \A i \in DOMAIN new : new[i].id # id
               /\ IF \E k \in DOMAIN old : old[k].id = id
                    THEN \E k \in DOMAIN old :
                           /\ old[k].id = id
                           /\ Len(new) = Len(old) - 1
                           /\ \A i \in DOMAIN new :
                                new[i] = IF i < k THEN old[i] ELSE old[i + 1]
                  ELSE new = old

\* A full list whose middle entry has just been replaced in place.
C30_Witness ==
  /\ lastOp = "replace"
  /\ Len(getContacts(store)) = MaxContacts
  /\ getContacts(store)[2] = [id |-> 1, name |-> "Bob"]

====
